---- MODULE Spec2Model ----
(***************************************************************************)
(* The SensorDotCommunity plugin (src/sensordotcommunity/main.py): the     *)
(* `api` request handler, its helpers _get_known_sensors, _register_sensor *)
(* and _update_sensor, and the gateway's sensor store they call through    *)
(* self.webinterface.                                                      *)
(*                                                                         *)
(* Strings that the code builds (the external id, the error message, the   *)
(* response body) are sequences of tokens, so that formatting and joining  *)
(* are what the code does and "contains" is a sub-sequence test.           *)
(***************************************************************************)
EXTENDS Integers, Sequences, FiniteSets, TLC

\* ------------------------------------------------------------------ bounds
\* Longest sensordatavalues list of a report.
MaxEntries == 2
\* Number of reports handled in one run.
MaxRequests == 2
\* Most records the gateway's sensor store holds; a full store refuses.
MaxRecords == 3

\* --------------------------------------------------------------- constants
\* SensorDotCommunity.name
PluginName == "SensorDotCommunity"
\* The name of some other plugin that registered sensors at the gateway.
OtherPlugin == "Hue"
\* Python's None as an external_id, and '' (the empty string).
None == <<"None">>
EmptyString == <<>>
\* Python's None as a sensor id (gateway ids are positive).
NoId == 0 - 1

Devices == {"12345678"}
SupportedTypes == {"temperature", "humidity", "SDS_P1", "SDS_P2"}
ValueTypes == SupportedTypes \cup {"samples"}
\* The "value" strings of a report: two decimal numbers and one that is not.
Values == {"23.20", "7.18", "n/a"}

\* float(entry["value"]): the number in hundredths; a string outside the
\* domain makes float() raise ValueError.
FloatOf == ("23.20" :> 2320) @@ ("7.18" :> 718)
IsNumeric(s) == s \in DOMAIN FloatOf
Float(s) == FloatOf[s]

Entries == [value_type : ValueTypes, value : Values]
RECURSIVE SeqsUpTo(_, _)
SeqsUpTo(S, n) ==
    IF n = 0 THEN {<<>>}
    ELSE LET shorter == SeqsUpTo(S, n - 1)
         IN  shorter \cup {Append(s, x) : s \in {t \in shorter : Len(t) = n - 1}, x \in S}
\* The decoded request bodies: esp8266id and sensordatavalues.
Reports == [esp8266id : Devices, sensordatavalues : SeqsUpTo(Entries, MaxEntries)]

\* --------------------------------------------------------- pure helpers
\* "{}/{}".format(device_id, value_type)
ExternalId(device_id, value_type) == <<device_id, "/", value_type>>

\* Mutant of Classify: the SDS_P2 branch copied from SDS_P1 with its name
\* left unchanged.
Classify_Mutant(value_type) ==
    CASE value_type = "temperature" ->
           [supported |-> TRUE, name |-> "Temperature",
            physical_quantity |-> "temperature", unit |-> "celcius"]
      [] value_type = "humidity" ->
           [supported |-> TRUE, name |-> "Humidity",
            physical_quantity |-> "humidity", unit |-> "percent"]
      [] value_type \in {"SDS_P1", "SDS_P2"} ->
           [supported |-> TRUE, name |-> "PM10",
            physical_quantity |-> "dust", unit |-> "micro_gram_per_cubic_meter"]
      [] OTHER ->
           [supported |-> FALSE, name |-> "", physical_quantity |-> "", unit |-> ""]

\* The if/elif chain of api: the name, physical quantity and unit of a
\* value_type, or unsupported (the else branch, which continues).
Classify(value_type) ==
    CASE value_type = "temperature" ->
           [supported |-> TRUE, name |-> "Temperature",
            physical_quantity |-> "temperature", unit |-> "celcius"]
      [] value_type = "humidity" ->
           [supported |-> TRUE, name |-> "Humidity",
            physical_quantity |-> "humidity", unit |-> "percent"]
      [] value_type = "SDS_P1" ->
           [supported |-> TRUE, name |-> "PM10",
            physical_quantity |-> "dust", unit |-> "micro_gram_per_cubic_meter"]
      [] value_type = "SDS_P2" ->
           [supported |-> TRUE, name |-> "PM2.5",
            physical_quantity |-> "dust", unit |-> "micro_gram_per_cubic_meter"]
      [] OTHER ->
           [supported |-> FALSE, name |-> "", physical_quantity |-> "", unit |-> ""]

Max(S) == CHOOSE m \in S : \A x \in S : x <= m
Min(S) == CHOOSE m \in S : \A x \in S : m <= x

\* Mutant of IsOwnKeyed: the source name is not compared.
IsOwnKeyed_Mutant(x) == x.external_id \notin {None, EmptyString}

\* The filter of _get_known_sensors' comprehension.
IsOwnKeyed(x) ==
    x.source.name = PluginName /\ x.external_id \notin {None, EmptyString}

\* _get_known_sensors: the dict external_id -> id of the snapshot's records
\* that pass the filter; a later record of the list overwrites an earlier one.
GetKnownSensors(config) ==
    LET I == {i \in 1..Len(config) : IsOwnKeyed(config[i])}
        keys == {config[i].external_id : i \in I}
    IN  [k \in keys |-> config[Max({i \in I : config[i].external_id = k})].id]

\* Mutant of IsUnknown: the known sensor map is not consulted.
IsUnknown_Mutant(known, external_id) == TRUE

\* sensor_external_id not in known_sensors.keys()
IsUnknown(known, external_id) == external_id \notin DOMAIN known

\* The payload _register_sensor sends.
RegistrationPayload(name, external_id, physical_quantity, unit) ==
    [external_id |-> external_id,
     source |-> [type |-> "plugin", name |-> PluginName],
     name |-> name,
     physical_quantity |-> physical_quantity,
     unit |-> unit]

\* Mutant of FindRegistered: the record is matched by external_id alone.
FindRegistered_Mutant(config, external_id) ==
    LET I == {i \in 1..Len(config) : config[i].external_id = external_id}
    IN  IF I = {} THEN NoId ELSE config[Min(I)].id

\* next((x['id'] for x in data['config'] if ...), None) of _register_sensor:
\* the id of the first matching record of the re-fetched snapshot.
FindRegistered(config, external_id) ==
    LET I == {i \in 1..Len(config) :
                 /\ config[i].external_id = external_id
                 /\ config[i].source.name = PluginName}
    IN  IF I = {} THEN NoId ELSE config[Min(I)].id

\* A gateway response: JSON null, or an object that may hold a success flag.
Responses ==
    {[null |-> TRUE,  keys |-> {},          success |-> FALSE],
     [null |-> FALSE, keys |-> {},          success |-> FALSE],
     [null |-> FALSE, keys |-> {"success"}, success |-> FALSE],
     [null |-> FALSE, keys |-> {"success"}, success |-> TRUE]}

\* not (data is None or not data.get('success', False))
Succeeded(data) == ~data.null /\ "success" \in data.keys /\ data.success

\* The payload _update_sensor sends.
StatusPayload(sensor_id, value) == [id |-> sensor_id, value |-> value]

\* Mutant of ErrorMsg: the message names the sensor by its display name only.
ErrorMsg_Mutant(name, external_id) ==
    <<"Sensor.community sensor ", name, " not found">>

\* 'Sensor.community sensor {} ({}) not found'.format(name, sensor_external_id)
ErrorMsg(name, external_id) ==
    <<"Sensor.community sensor ", name, " (">> \o external_id \o <<") not found">>

\* '\n'.join(errors)
RECURSIVE JoinLines(_)
JoinLines(msgs) ==
    IF Len(msgs) = 0 THEN <<>>
    ELSE IF Len(msgs) = 1 THEN msgs[1]
    ELSE msgs[1] \o <<"\n">> \o JoinLines(Tail(msgs))

\* Mutant of MakeResponse: the body is the first error only.
MakeResponse_Mutant(errs) ==
    IF errs # <<>>
    THEN [status_code |-> 500, body |-> errs[1]]
    ELSE [status_code |-> 200, body |-> <<"success">>]

\* The return statement of api.
MakeResponse(errs) ==
    IF errs # <<>>
    THEN [status_code |-> 500, body |-> JoinLines(errs)]
    ELSE [status_code |-> 200, body |-> <<"success">>]

\* ------------------------------------------------------------------ state
VARIABLES
    gateway,        \* the gateway's sensor records, in snapshot order
    pc,             \* "idle", "loop" (inside api), "done" (returned), "raised"
    report,         \* data = json.loads(body) of the request being handled
    known_sensors,  \* the dict built at the start of the request
    idx,            \* position of the for loop in sensordatavalues
    errors,         \* the per-request error list
    calls,          \* the webinterface calls of this request, in order
    response,       \* the PluginWebResponse returned
    requests,       \* number of requests received so far
    faithful,       \* the gateway accepted and showed every registration of this request
    prev,           \* what the previous request did
    registered,     \* set_sensor_configuration calls per external id, whole run
    faithful_run    \* the gateway accepted and showed every registration so far

vars == <<gateway, pc, report, known_sensors, idx, errors, calls, response,
          requests, faithful, prev, registered, faithful_run>>

NoReport == [esp8266id |-> "", sensordatavalues |-> <<>>]
NoResponse == [status_code |-> 0, body |-> <<>>]
NoPrev == [resubmission |-> FALSE, targets |-> {}, faithful |-> FALSE]

SupportedIds == {ExternalId(d, t) : d \in Devices, t \in SupportedTypes}

Record(id, external_id, source_name, c) ==
    [id |-> id, external_id |-> external_id,
     source |-> [type |-> "plugin", name |-> source_name],
     name |-> c.name, physical_quantity |-> c.physical_quantity, unit |-> c.unit]

TemperatureId == ExternalId("12345678", "temperature")

\* Sensor stores the gateway may hold when the plugin starts.
InitialStores ==
    {<<>>,
     <<Record(42, TemperatureId, PluginName, Classify("temperature"))>>,
     <<Record(7, TemperatureId, OtherPlugin, Classify("temperature"))>>,
     <<Record(5, EmptyString, PluginName, Classify("humidity")),
       Record(6, None, PluginName, Classify("humidity"))>>,
     <<Record(42, TemperatureId, PluginName, Classify("temperature")),
       Record(43, TemperatureId, PluginName, Classify("temperature"))>>}

Init ==
    /\ gateway \in InitialStores
    /\ pc = "idle"
    /\ report = NoReport
    /\ known_sensors = <<>>
    /\ idx = 0
    /\ errors = <<>>
    /\ calls = <<>>
    /\ response = NoResponse
    /\ requests = 0
    /\ faithful = TRUE
    /\ prev = NoPrev
    /\ registered = [e \in SupportedIds |-> 0]
    /\ faithful_run = TRUE

\* ------------------------------------------------------------ call records
\* A call is logged with the loop position that made it (0: before the loop),
\* what it sent, and what came back: the snapshot, or whether the response
\* holds a truthy success flag.
GetCall(entry, config) ==
    [op |-> "get_sensor_configurations", entry |-> entry, arg |-> <<>>, ret |-> config]
SetConfigCall(entry, config, data) ==
    [op |-> "set_sensor_configuration", entry |-> entry, arg |-> config, ret |-> Succeeded(data)]
SetStatusCall(entry, status, data) ==
    [op |-> "set_sensor_status", entry |-> entry, arg |-> status, ret |-> Succeeded(data)]

Targets(cs) == {cs[i].arg.id : i \in {j \in 1..Len(cs) : cs[j].op = "set_sensor_status"}}
CallsOf(cs, op, entry) == {i \in 1..Len(cs) : cs[i].op = op /\ cs[i].entry = entry}
CallsTo(cs, op) == {i \in 1..Len(cs) : cs[i].op = op}

\* -------------------------------------------------------------- the gateway
NextSensorId(store) ==
    IF Len(store) = 0 THEN 1 ELSE Max({store[i].id : i \in 1..Len(store)}) + 1

\* What set_sensor_configuration does at the gateway:
\*   "stored"  a new record with a fresh id, success
\*   "merged"  a record of this source and external id exists and is kept, success
\*   "lagging" success, but the record is not in the snapshots
\*   "refused" no truthy success flag in the response, nothing stored
RegistrationOutcomes == {"stored", "merged", "lagging", "refused"}

StoreAfter(store, config, outcome) ==
    IF outcome = "stored"
    THEN Append(store, [id |-> NextSensorId(store)] @@ config)
    ELSE store

\* -------------------------------------------------------------- operations
\* api, up to the for loop: json.loads(body), _get_known_sensors().
Request(r, p) ==
    /\ requests < MaxRequests
    /\ requests' = requests + 1
    /\ prev' = p
    /\ report' = r
    /\ errors' = <<>>
    /\ calls' = <<GetCall(0, gateway)>>
    /\ known_sensors' = GetKnownSensors(gateway)
    /\ idx' = 1
    /\ response' = NoResponse
    /\ faithful' = TRUE
    /\ pc' = "loop"
    /\ UNCHANGED <<gateway, registered, faithful_run>>

InLoop == pc = "loop" /\ idx <= Len(report.sensordatavalues)
Entry == report.sensordatavalues[idx]
EntryId == ExternalId(report.esp8266id, Entry.value_type)

\* A device posts a report.
Receive(r) ==
    /\ pc \in {"idle", "done", "raised"}
    /\ Request(r, NoPrev)

\* The device posts the report again, after the handler returned.
Resubmit ==
    /\ pc = "done"
    /\ Request(report, [resubmission |-> TRUE, targets |-> Targets(calls),
                        faithful |-> faithful])

\* float(entry["value"]) raises: the handler is left by the exception.
ValueError ==
    /\ InLoop
    /\ ~IsNumeric(Entry.value)
    /\ pc' = "raised"
    /\ UNCHANGED <<gateway, report, known_sensors, idx, errors, calls, response,
                   requests, faithful, prev, registered, faithful_run>>

\* The else branch of the classification: continue.
SkipUnsupported ==
    /\ InLoop
    /\ IsNumeric(Entry.value)
    /\ ~Classify(Entry.value_type).supported
    /\ idx' = idx + 1
    /\ UNCHANGED <<gateway, pc, report, known_sensors, errors, calls, response,
                   requests, faithful, prev, registered, faithful_run>>

\* if om_sensor_id is not None: self._update_sensor(om_sensor_id, value)
\* `data` is the gateway's response to set_sensor_status.
CallsAfter(cs, entry, om_sensor_id, value, data) ==
    IF om_sensor_id # NoId
    THEN Append(cs, SetStatusCall(entry, StatusPayload(om_sensor_id, value), data))
    ELSE cs

\* Mutant of ErrorsAfter: a failed update is reported like a failed registration.
ErrorsAfter_Mutant(errs, om_sensor_id, name, external_id, data) ==
    IF om_sensor_id # NoId /\ Succeeded(data)
    THEN errs
    ELSE Append(errs, ErrorMsg(name, external_id))

\* else: errors.append(msg); a failed update only logs a warning.
ErrorsAfter(errs, om_sensor_id, name, external_id, data) ==
    IF om_sensor_id # NoId
    THEN errs
    ELSE Append(errs, ErrorMsg(name, external_id))

\* Lines 138-144: update the sensor, or record the error.
AfterResolve(cs, om_sensor_id, c, data) ==
    /\ calls' = CallsAfter(cs, idx, om_sensor_id, Float(Entry.value), data)
    /\ errors' = ErrorsAfter(errors, om_sensor_id, c.name, EntryId, data)

\* One iteration for an entry whose external id is in known_sensors.
UpdateKnown ==
    /\ InLoop
    /\ IsNumeric(Entry.value)
    /\ Classify(Entry.value_type).supported
    /\ ~IsUnknown(known_sensors, EntryId)
    /\ \E data \in Responses :
          AfterResolve(calls, known_sensors[EntryId], Classify(Entry.value_type), data)
    /\ idx' = idx + 1
    /\ UNCHANGED <<gateway, pc, report, known_sensors, response,
                   requests, faithful, prev, registered, faithful_run>>

\* One iteration for an entry whose external id is not in known_sensors:
\* _register_sensor, then the update or the error.
RegisterNew ==
    /\ InLoop
    /\ IsNumeric(Entry.value)
    /\ Classify(Entry.value_type).supported
    /\ IsUnknown(known_sensors, EntryId)
    /\ \E outcome \in RegistrationOutcomes, reg \in Responses, data \in Responses :
          LET c == Classify(Entry.value_type)
              config == RegistrationPayload(c.name, EntryId, c.physical_quantity, c.unit)
              store == StoreAfter(gateway, config, outcome)
              sent == Append(calls, SetConfigCall(idx, config, reg))
          IN  /\ Succeeded(reg) <=> outcome # "refused"
              /\ outcome = "stored" => Len(gateway) < MaxRecords
              /\ outcome = "merged" => FindRegistered(gateway, EntryId) # NoId
              /\ gateway' = store
              /\ registered' = [registered EXCEPT ![EntryId] = @ + 1]
              /\ faithful' = (faithful /\ outcome \in {"stored", "merged"})
              /\ faithful_run' = (faithful_run /\ outcome \in {"stored", "merged"})
              /\ IF ~Succeeded(reg)
                 THEN AfterResolve(sent, NoId, c, data)
                 ELSE AfterResolve(Append(sent, GetCall(idx, store)),
                                   FindRegistered(store, EntryId), c, data)
    /\ idx' = idx + 1
    /\ UNCHANGED <<pc, report, known_sensors, response, requests, prev>>

\* The end of the loop: the return statement.
Respond ==
    /\ pc = "loop"
    /\ idx > Len(report.sensordatavalues)
    /\ response' = MakeResponse(errors)
    /\ pc' = "done"
    /\ UNCHANGED <<gateway, report, known_sensors, idx, errors, calls,
                   requests, faithful, prev, registered, faithful_run>>

\* One request, from any of the initial stores.
Next ==
    \/ \E r \in Reports : pc = "idle" /\ Receive(r)
    \/ ValueError
    \/ SkipUnsupported
    \/ UpdateKnown
    \/ RegisterNew
    \/ Respond

Spec == Init /\ [][Next]_vars

\* A sequence of requests, each handled to completion before the next.
NextRun ==
    \/ \E r \in Reports : Receive(r)
    \/ Resubmit
    \/ ValueError
    \/ SkipUnsupported
    \/ UpdateKnown
    \/ RegisterNew
    \/ Respond

SpecRun == Init /\ [][NextRun]_vars

\* ================================================================ claims
\* Vocabulary of the claims, written from the report and the call log alone.
NEntries == Len(report.sensordatavalues)
TypeOf(i) == report.sensordatavalues[i].value_type
IsSupported(i) == TypeOf(i) \in SupportedTypes
IdOf(i) == <<report.esp8266id, "/", TypeOf(i)>>
ValueOf(i) == FloatOf[report.sensordatavalues[i].value]
\* The entries whose loop iteration has finished.
Processed == IF pc \in {"loop", "done", "raised"} THEN 1..(idx - 1) ELSE {}
WasKnown(i) == IdOf(i) \in DOMAIN known_sensors
Registrations(i) == CallsOf(calls, "set_sensor_configuration", i)
Refetches(i) == CallsOf(calls, "get_sensor_configurations", i)
Updates(i) == CallsOf(calls, "set_sensor_status", i)
OwnRecords(config, external_id) ==
    {j \in 1..Len(config) : /\ config[j].external_id = external_id
                            /\ config[j].source.name = "SensorDotCommunity"}
\* The registration of entry i was answered without a truthy success flag.
Refused(i) == \E c \in Registrations(i) : ~calls[c].ret
\* It was answered with success, and the re-fetched snapshot lacks the record.
Missing(i) ==
    /\ \E c \in Registrations(i) : calls[c].ret
    /\ \A g \in Refetches(i) : OwnRecords(calls[g].ret, IdOf(i)) = {}
\* Entry i is supported, was not in the known sensor map, and got no id.
GotNoId(i) == IsSupported(i) /\ ~WasKnown(i) /\ (Refused(i) \/ Missing(i))
Contains(s, sub) ==
    \E k \in 0..(Len(s) - Len(sub)) : \A j \in 1..Len(sub) : s[k + j] = sub[j]
Success == [status_code |-> 200, body |-> <<"success">>]

\* ---- C1
TripleOf(config) == <<config.name, config.physical_quantity, config.unit>>
SpecTable ==
    ("temperature" :> <<"Temperature", "temperature", "celsius">>)
    @@ ("humidity" :> <<"Humidity", "humidity", "percent">>)
    @@ ("SDS_P1" :> <<"PM10", "dust", "micro_gram_per_cubic_meter">>)
    @@ ("SDS_P2" :> <<"PM2.5", "dust", "micro_gram_per_cubic_meter">>)
CodeTable ==
    [SpecTable EXCEPT !["temperature"] = <<"Temperature", "temperature", "celcius">>]

\* C1 as stated: every registration payload carries, for the value_type of its
\* entry, the (name, physical_quantity, unit) triple of the spec's table, whose
\* temperature unit is "celsius".
C1_Original ==
    \A c \in CallsTo(calls, "set_sensor_configuration") :
        TripleOf(calls[c].arg) = SpecTable[TypeOf(calls[c].entry)]

\* C1 amended: every registration payload carries, for the value_type of its
\* entry, the triple of the spec's table with the temperature unit spelled
\* "celcius": temperature -> (Temperature, temperature, celcius), humidity ->
\* (Humidity, humidity, percent), SDS_P1 -> (PM10, dust,
\* micro_gram_per_cubic_meter), SDS_P2 -> (PM2.5, dust,
\* micro_gram_per_cubic_meter).
C1_Amended ==
    \A c \in CallsTo(calls, "set_sensor_configuration") :
        /\ TypeOf(calls[c].entry) \in SupportedTypes
        /\ TripleOf(calls[c].arg) = CodeTable[TypeOf(calls[c].entry)]

\* A request that registered a temperature sensor and one of another type.
C1_Witness ==
    /\ pc = "done"
    /\ \E c, d \in CallsTo(calls, "set_sensor_configuration") :
          /\ TypeOf(calls[c].entry) = "temperature"
          /\ calls[c].arg.unit = "celcius"
          /\ TypeOf(calls[d].entry) = "SDS_P2"

\* ---- C2
\* Entry i is the one supported entry of the report.
OnlySupported(i) ==
    /\ i \in 1..NEntries
    /\ \A j \in 1..NEntries : IsSupported(j) <=> j = i

\* C2: a report with one supported entry whose external id is not in the known
\* sensor map, the registration accepted and the record in the re-fetched
\* snapshot: after the initial snapshot the calls are, in this order, one
\* set_sensor_configuration, one get_sensor_configurations and one
\* set_sensor_status with the id of the re-fetched record and the reported
\* value, and the response is 200 "success".
C2_RegisterThenUpdate ==
    \A i \in 1..NEntries :
        (pc = "done" /\ OnlySupported(i) /\ ~WasKnown(i) /\ faithful)
        => /\ Len(calls) = 4
           /\ calls[1].op = "get_sensor_configurations"
           /\ calls[2].op = "set_sensor_configuration"
           /\ calls[2].arg.external_id = IdOf(i)
           /\ calls[3].op = "get_sensor_configurations"
           /\ calls[4].op = "set_sensor_status"
           /\ \E j \in OwnRecords(calls[3].ret, IdOf(i)) :
                 calls[3].ret[j].id = calls[4].arg.id
           /\ calls[4].arg.value = ValueOf(i)
           /\ response = Success

\* Such a request: one unknown temperature entry, registered and updated.
C2_Witness ==
    /\ pc = "done" /\ NEntries = 1 /\ OnlySupported(1) /\ ~WasKnown(1) /\ faithful
    /\ TypeOf(1) = "temperature"
    /\ Len(calls) = 4 /\ calls[4].arg.value = 2320
    /\ response.status_code = 200

\* ---- C3
\* C3: every processed supported entry whose external id is in the known sensor
\* map built at the start of the request has no set_sensor_configuration call
\* and exactly one set_sensor_status call, which carries the mapped id and the
\* entry's value.
C3_KnownIsUpdatedOnly ==
    \A i \in Processed :
        (IsSupported(i) /\ WasKnown(i))
        => /\ Registrations(i) = {}
           /\ Cardinality(Updates(i)) = 1
           /\ \A u \in Updates(i) :
                 calls[u].arg = [id |-> known_sensors[IdOf(i)], value |-> ValueOf(i)]

\* A known temperature sensor, id 42, was updated with 23.20 and the handler returned.
C3_Witness ==
    /\ pc = "done"
    /\ \E i \in Processed :
          /\ IsSupported(i) /\ WasKnown(i)
          /\ \E u \in Updates(i) : calls[u].arg = [id |-> 42, value |-> 2320]

\* ---- C4
\* C4: a processed supported entry with an unknown external id whose
\* registration yields no id (no truthy success flag, or success and no such
\* record in the re-fetched snapshot) has exactly one set_sensor_configuration
\* call and no set_sensor_status call, and the response is 500 with a body
\* that contains the entry's external id.
C4_FailedRegistration ==
    \A i \in Processed :
        GotNoId(i)
        => /\ Cardinality(Registrations(i)) = 1
           /\ Updates(i) = {}
           /\ pc = "done" => /\ response.status_code = 500
                             /\ Contains(response.body, IdOf(i))

\* Both ways of getting no id, in one request that returned.
C4_Witness ==
    /\ pc = "done"
    /\ \E i, j \in Processed :
          /\ GotNoId(i) /\ Refused(i)
          /\ GotNoId(j) /\ Missing(j)
    /\ response.status_code = 500

\* ---- C5
\* C5: when the handler returns and every supported entry got a sensor id, the
\* response is 200 "success" and the error list is empty, whatever the
\* set_sensor_status calls returned.
C5_UpdateFailureSwallowed ==
    (pc = "done" /\ \A i \in 1..NEntries : ~GotNoId(i))
    => response = Success /\ errors = <<>>

\* A request in which an update failed and every entry got an id.
C5_Witness ==
    /\ pc = "done"
    /\ \A i \in 1..NEntries : ~GotNoId(i)
    /\ \E u \in CallsTo(calls, "set_sensor_status") : ~calls[u].ret
    /\ \E u \in CallsTo(calls, "set_sensor_status") : calls[u].ret
    /\ response = Success

\* ---- C8
\* The messages of the entries from i on that got no id, in payload order.
RECURSIVE ExpectedErrors(_)
ExpectedErrors(i) ==
    IF i > NEntries THEN <<>>
    ELSE IF GotNoId(i)
         THEN <<<<"Sensor.community sensor ", CodeTable[TypeOf(i)][1], " (">>
                  \o IdOf(i) \o <<") not found">>>> \o ExpectedErrors(i + 1)
         ELSE ExpectedErrors(i + 1)
RECURSIVE Lines(_)
Lines(msgs) ==
    IF msgs = <<>> THEN <<>>
    ELSE IF Len(msgs) = 1 THEN Head(msgs)
    ELSE Head(msgs) \o <<"\n">> \o Lines(Tail(msgs))

C8_WitnessTwo ==
    /\ pc = "done" /\ NEntries >= 2
    /\ GotNoId(1) /\ GotNoId(2)
    /\ Contains(response.body, <<"\n">>)

\* ---- C10
\* C10: every set_sensor_status call targets the id of a record, seen in a
\* snapshot fetched earlier in the same request, whose source name is the
\* plugin's and whose external_id is the one of the call's entry; an entry
\* for which the first snapshot holds only records of other sources is
\* registered; and no null or empty external_id is a key of the known
\* sensor map.
C10_OwnRecordsOnly ==
    /\ \A u \in CallsTo(calls, "set_sensor_status") :
          \E g \in CallsTo(calls, "get_sensor_configurations") :
             /\ g < u
             /\ \E j \in OwnRecords(calls[g].ret, IdOf(calls[u].entry)) :
                   calls[g].ret[j].id = calls[u].arg.id
    /\ \A i \in Processed :
          (IsSupported(i) /\ OwnRecords(calls[1].ret, IdOf(i)) = {})
          => Registrations(i) # {}
    /\ <<"None">> \notin DOMAIN known_sensors
    /\ <<>> \notin DOMAIN known_sensors

\* The first snapshot holds another plugin's record with the entry's external
\* id; the entry was registered and then updated.
C10_Witness ==
    /\ pc = "done"
    /\ \E i \in Processed :
          /\ \E j \in 1..Len(calls[1].ret) :
                /\ calls[1].ret[j].external_id = IdOf(i)
                /\ calls[1].ret[j].source.name # "SensorDotCommunity"
          /\ Registrations(i) # {}
          /\ Updates(i) # {}

\* The first snapshot holds the plugin's records with a null and an empty
\* external_id, and an entry was updated.
C10_WitnessUnkeyed ==
    /\ pc = "done"
    /\ \E j \in 1..Len(calls[1].ret) : calls[1].ret[j].external_id = <<"None">>
    /\ \E j \in 1..Len(calls[1].ret) : calls[1].ret[j].external_id = <<>>
    /\ CallsTo(calls, "set_sensor_status") # {}

\* ---- C7
\* C7: an entry whose value_type is not supported is ignored whatever its
\* value: it never makes the handler fail, no call is made for it, and the
\* response is the one the supported entries alone determine.
C7_Original ==
    /\ pc = "raised" => IsSupported(idx)
    /\ \A c \in 1..Len(calls) : calls[c].entry = 0 \/ IsSupported(calls[c].entry)
    /\ pc = "done" =>
          response = IF \E i \in 1..NEntries : GotNoId(i)
                     THEN [status_code |-> 500, body |-> Lines(ExpectedErrors(1))]
                     ELSE Success

\* ---- C6
\* C6: a report submitted a second time, after the handler returned, to a
\* gateway that accepted and showed every registration of both submissions:
\* the second submission makes no set_sensor_configuration call and its
\* set_sensor_status calls target the same set of sensor ids as the first's.
C6_Original ==
    (pc = "done" /\ prev.resubmission /\ prev.faithful /\ faithful)
    => /\ CallsTo(calls, "set_sensor_configuration") = {}
       /\ Targets(calls) = prev.targets

\* ---- C9
\* C9: as long as the gateway accepted and showed every registration, no
\* external id has had more than one set_sensor_configuration call.
C9_Original ==
    faithful_run => \A e \in SupportedIds : registered[e] <= 1

====
